---- MODULE Spec2Model ----
(***************************************************************************)
(* Multi-dataset sampling and batch construction of                        *)
(* ddetrs/data/custom_dataset_dataloader.py:                               *)
(*   - the batch groupers MDAspectRatioGroupedDataset and                  *)
(*     DIFFMDAspectRatioGroupedDataset, built by                           *)
(*     build_multi_dataset_batch_data_loader;                              *)
(*   - the record merger get_detection_dataset_dicts_with_source;          *)
(*   - MultiDatasetSampler: construction of the weight vector and the      *)
(*     rank-strided infinite index stream.                                 *)
(***************************************************************************)
EXTENDS Integers, Sequences, FiniteSets, TLC

VARIABLES
    catalog,        \* DatasetCatalog: the record lists of the datasets named in DATASETS.TRAIN
    cfg,            \* the configuration and the environment (world size, sampler objects built)
    dataset_dicts,  \* the result of get_detection_dataset_dicts_with_source
    samplers,       \* the MultiDatasetSampler objects
    iters,          \* the iterators obtained from the samplers
    grouper,        \* the grouper object: kind, batch_size, batch_sizes, num_datasets, _buckets
    gpc,            \* position of the grouper's __iter__ generator
    cur,            \* bucket id of the batch the generator is suspended on (0: none)
    gen2,           \* a second generator of the same grouper: its position and its bucket
    consumed,       \* the records the generator has taken from self.dataset, in order
    emitted,        \* the batches handed to the consumer, in order
    emit_at         \* emit_at[j]: number of records consumed when batch j was yielded

gvars == <<grouper, gpc, cur, gen2, consumed, emitted, emit_at>>

svars == <<catalog, cfg, dataset_dicts, samplers, iters>>

vars == <<catalog, cfg, dataset_dicts, samplers, iters,
          grouper, gpc, cur, gen2, consumed, emitted, emit_at>>

-----------------------------------------------------------------------------
(* Bounds of the model. *)

\* Records fed to a grouper over one dataset / over two datasets.
MaxStreamOne == 7
MaxStreamTwo == 4
\* Records fed to a grouper that is iterated by two generators.
MaxInterleaved == 3
\* Records of one dataset of the catalog.
MaxPerDataset == 2
\* Length of the per-dataset configuration lists when they are not aligned with the datasets.
MaxCfgLen == 2
\* Indices one iterator of a sampler is asked for.
MaxDraws == 3

-----------------------------------------------------------------------------
(* Generic helpers. *)

Range(s) == {s[i] : i \in 1..Len(s)}

Max2(a, b) == IF a >= b THEN a ELSE b

Min2(a, b) == IF a <= b THEN a ELSE b

\* Sequences over S of length lo..hi.
SeqsOf(S, lo, hi) == UNION {[1..n -> S] : n \in lo..hi}

-----------------------------------------------------------------------------
(* Arithmetic of the weights.  A weight is a fraction <<n, d>> in lowest terms  *)
(* with d > 0; <<0, 0>> stands for the float nan (0 * inf, 0 / 0).              *)

Abs(a) == IF a < 0 THEN 0 - a ELSE a

RECURSIVE GCD(_, _)
GCD(a, b) == IF b = 0 THEN a ELSE GCD(b, a % b)

NaN == <<0, 0>>

IsNaN(q) == q[2] = 0

Frac(n, d) ==
    IF d = 0 THEN NaN
    ELSE LET g == GCD(Abs(n), Abs(d))
             sgn == IF d < 0 THEN 0 - 1 ELSE 1
         IN  <<sgn * (n \div g), sgn * (d \div g)>>

FromInt(n) == <<n, 1>>

RMul(p, q) == IF IsNaN(p) \/ IsNaN(q) THEN NaN ELSE Frac(p[1] * q[1], p[2] * q[2])

RAdd(p, q) ==
    IF IsNaN(p) \/ IsNaN(q) THEN NaN ELSE Frac(p[1] * q[2] + q[1] * p[2], p[2] * q[2])

\* p / q as torch divides: x / 0 is inf for x > 0 and nan for x = 0; the only
\* division by zero the sampler performs is followed by a product with 0, so
\* the quotient by zero is carried as nan.
RDiv(p, q) ==
    IF IsNaN(p) \/ IsNaN(q) \/ q[1] = 0 THEN NaN ELSE Frac(p[1] * q[2], p[2] * q[1])

RLess(p, q) == ~IsNaN(p) /\ ~IsNaN(q) /\ p[1] * q[2] < q[1] * p[2]

RPositive(q) == ~IsNaN(q) /\ q[1] > 0

RMax(p, q) == IF RLess(p, q) THEN q ELSE p

RECURSIVE RSum(_)
RSum(s) == IF s = <<>> THEN FromInt(0) ELSE RAdd(s[1], RSum(Tail(s)))

RECURSIVE IntSum(_)
IntSum(s) == IF s = <<>> THEN 0 ELSE s[1] + IntSum(Tail(s))

RECURSIVE IntMax(_)
IntMax(s) == IF Len(s) = 1 THEN s[1] ELSE Max2(s[1], IntMax(Tail(s)))

RECURSIVE Concat(_)
Concat(ss) == IF ss = <<>> THEN <<>> ELSE ss[1] \o Concat(Tail(ss))

\* The largest r in lo..hi with r * r <= x (lo * lo <= x < (hi + 1) * (hi + 1)).
RECURSIVE IsqrtIn(_, _, _)
IsqrtIn(x, lo, hi) ==
    IF lo = hi THEN lo
    ELSE LET mid == (lo + hi + 1) \div 2
         IN  IF mid * mid <= x THEN IsqrtIn(x, mid, hi) ELSE IsqrtIn(x, lo, mid - 1)

\* Digits kept by the square root: math.sqrt rounded down to 1 / SqrtScale.
SqrtScale == 1000

\* math.sqrt(q), for 0 <= q <= 100
Sqrt(q) ==
    Frac(IsqrtIn((q[1] * SqrtScale * SqrtScale) \div q[2], 0, 10 * SqrtScale), SqrtScale)

-----------------------------------------------------------------------------
(* The record merger. *)

NoDicts == [status |-> "none", dicts |-> <<>>]

\* Variant: the records are tagged with a 1-based dataset number.
WithSourceOneBased(dicts, source_id) ==
    [k \in 1..Len(dicts) |->
        [dataset_source |-> source_id + 1, cats |-> dicts[k].cats, tags |-> dicts[k].tags]]

\* d["dataset_source"] = source_id, for every record of one dataset
WithSource(dicts, source_id) ==
    [k \in 1..Len(dicts) |->
        [dataset_source |-> source_id, cats |-> dicts[k].cats, tags |-> dicts[k].tags]]

\* filter_images_with_only_crowd_annotations: keeps the records that have an
\* annotation which is not a crowd; a record without categories has none.
FilterImagesWithOnlyCrowdAnnotations(dicts) ==
    LET Valid(d) == d.cats # {}
    IN  SelectSeq(dicts, Valid)

\* filter_images_with_few_keypoints: keeps the records with at least
\* min_keypoints visible keypoints; the annotations here carry no keypoints.
FilterImagesWithFewKeypoints(dicts, min_keypoints) ==
    LET VisibleKeypointsInImage(d) == 0
        Enough(d) == VisibleKeypointsInImage(d) >= min_keypoints
    IN  SelectSeq(dicts, Enough)

\* The value the loop variable dataset_dict is bound to at the end of one pass of
\* the filter loop.
FilterLoopValue(dataset_dict, filter_empty, min_keypoints) ==
    LET has_instances == TRUE
        first == IF filter_empty /\ has_instances
                 THEN FilterImagesWithOnlyCrowdAnnotations(dataset_dict)
                 ELSE dataset_dict
    IN  IF min_keypoints > 0 /\ has_instances
        THEN FilterImagesWithFewKeypoints(first, min_keypoints)
        ELSE first

\* Variant: the filtered lists are the ones that are chained.
GetDetectionDatasetDictsFiltered(datasets, filter_empty, min_keypoints) ==
    IF Len(datasets) = 0 \/ \E i \in 1..Len(datasets) : Len(datasets[i]) = 0
    THEN [status |-> "AssertionError", dicts |-> <<>>]
    ELSE [status |-> "ok",
          dicts |-> Concat([i \in 1..Len(datasets) |->
                               FilterLoopValue(WithSource(datasets[i], i - 1),
                                               filter_empty, min_keypoints)])]

\* get_detection_dataset_dicts_with_source: the assertions, the tagging, the
\* filter loop and the chaining of the datasets.  The lists returned by the two
\* filters are bound to the loop variable only: the list dataset_dicts that is
\* chained still holds the unfiltered lists.
GetDetectionDatasetDictsWithSource(datasets, filter_empty, min_keypoints) ==
    IF Len(datasets) = 0 \/ \E i \in 1..Len(datasets) : Len(datasets[i]) = 0
    THEN [status |-> "AssertionError", dicts |-> <<>>]
    ELSE LET dataset_dicts_tagged ==
                 [i \in 1..Len(datasets) |-> WithSource(datasets[i], i - 1)]
             dataset_dict ==
                 [i \in 1..Len(datasets) |->
                     FilterLoopValue(dataset_dicts_tagged[i], filter_empty, min_keypoints)]
         IN  [status |-> "ok", dicts |-> Concat(dataset_dicts_tagged)]

-----------------------------------------------------------------------------
(* MultiDatasetSampler.__init__ *)

\* sizes[d["dataset_source"]] += 1 raises IndexError for a source beyond the list.
SizesIndexError(dicts, dataset_ratio) ==
    \E k \in 1..Len(dicts) : dicts[k].dataset_source >= Len(dataset_ratio)

\* sizes = [0 for _ in range(len(dataset_ratio))], then one increment per record.
Sizes(dicts, dataset_ratio) ==
    [i \in 1..Len(dataset_ratio) |->
        Cardinality({k \in 1..Len(dicts) : dicts[k].dataset_source = i - 1})]

\* assert len(dataset_ratio) == len(sizes)
RatioAssert(dataset_ratio, sizes) == Len(dataset_ratio) = Len(sizes)

\* Variant: the seed that was passed in is not used.
SeedOfShared(seed, shared) == shared

\* self._seed = int(seed), seed being comm.shared_random_seed() when None is given.
\* A seed is <<>> (None) or <<n>>.
SeedOf(seed, shared) == IF seed = <<>> THEN shared ELSE seed[1]

\* Variant: the sizes are normalised by their sum instead of their maximum.
DatasetWeightBySum(sizes, dataset_ratio) ==
    Concat([i \in 1..Len(sizes) |->
        [k \in 1..sizes[i] |->
            Frac(IntSum(sizes) * dataset_ratio[i], sizes[i] * IntSum(dataset_ratio))]])

\* torch.ones(s) * max(sizes) / s * r / sum(dataset_ratio), concatenated over the datasets.
DatasetWeight(sizes, dataset_ratio) ==
    Concat([i \in 1..Len(sizes) |->
        [k \in 1..sizes[i] |->
            Frac(IntMax(sizes) * dataset_ratio[i], sizes[i] * IntSum(dataset_ratio))]])

\* Occurrences of tag c in the pos_category_ids lists of the records.
TagCount(dicts, c) ==
    IntSum([k \in 1..Len(dicts) |->
        Cardinality({j \in 1..Len(dicts[k].tags) : dicts[k].tags[j] = c})])

\* category_freq[c] of repeat_factors_from_tag_frequency: the count of c divided by
\* the number of records.
CategoryFreq(dicts, c) == Frac(TagCount(dicts, c), Len(dicts))

\* max(1.0, math.sqrt(repeat_thresh / cat_freq))
CategoryRep(repeat_thresh, cat_freq) ==
    RMax(FromInt(1), Sqrt(RDiv(repeat_thresh, cat_freq)))

\* max(S, default=dflt) over a set of fractions
RECURSIVE RMaxOver(_, _)
RMaxOver(S, dflt) ==
    IF S = {} THEN dflt
    ELSE LET x == CHOOSE y \in S : TRUE
         IN  IF S = {x} THEN x ELSE RMax(x, RMaxOver(S \ {x}, x))

\* repeat_factors_from_tag_frequency
RepeatFactorsFromTagFrequency(dicts, repeat_thresh) ==
    LET category_rep(c) == CategoryRep(repeat_thresh, CategoryFreq(dicts, c))
    IN  [k \in 1..Len(dicts) |->
            RMaxOver({category_rep(c) : c \in Range(dicts[k].tags)}, FromInt(1))]

\* RepeatFactorTrainingSampler.repeat_factors_from_category_frequency (detectron2):
\* the same computation over the category ids of the box annotations, an image
\* counting once per category.
RepeatFactorsFromCategoryFrequency(dicts, repeat_thresh) ==
    LET num_images == Len(dicts)
        category_freq(c) ==
            Frac(Cardinality({k \in 1..Len(dicts) : c \in dicts[k].cats}), num_images)
        category_rep(c) == CategoryRep(repeat_thresh, category_freq(c))
    IN  [k \in 1..Len(dicts) |->
            RMaxOver({category_rep(c) : c \in dicts[k].cats}, FromInt(1))]

\* category_freq[cat_id] of _get_class_balance_factor_per_dataset: the number of
\* records whose annotations hold the category.
CategoryCount(dicts, c) == Cardinality({k \in 1..Len(dicts) : c \in dicts[k].cats})

RECURSIVE InvFreqSum(_, _)
\* sum([1.0 / (category_freq[cat_id] ** l) for cat_id in cat_ids]), with l = 1.0
InvFreqSum(cat_ids, dicts) ==
    IF cat_ids = {} THEN FromInt(0)
    ELSE LET x == CHOOSE y \in cat_ids : TRUE
         IN  RAdd(Frac(1, CategoryCount(dicts, x)), InvFreqSum(cat_ids \ {x}, dicts))

\* MultiDatasetSampler._get_class_balance_factor_per_dataset
GetClassBalanceFactorPerDataset(dicts) ==
    [k \in 1..Len(dicts) |-> InvFreqSum(dicts[k].cats, dicts)]

\* factor * (s / factor.sum())
Renormalize(factor, s) ==
    LET scale == RDiv(FromInt(s), RSum(factor))
    IN  [k \in 1..Len(factor) |-> RMul(factor[k], scale)]

Ones(s) == [k \in 1..s |-> FromInt(1)]

\* Variant: the offset st is not advanced from one dataset to the next.
SliceWithoutOffset(dicts, sizes, i) ==
    SubSeq(dicts, 1, Min2(sizes[i], Len(dicts)))

\* dataset_dicts[st : st + s] for dataset i (1-based), st being the sum of the sizes before it.
Slice(dicts, sizes, i) ==
    LET st == IntSum(SubSeq(sizes, 1, i - 1))
    IN  SubSeq(dicts, st + 1, Min2(st + sizes[i], Len(dicts)))

\* use_rfs[i] and, when it is set, dataset_ann[i] raise IndexError beyond their lists.
RfsIndexError(sizes, use_rfs, dataset_ann) ==
    \E i \in 1..Len(sizes) :
        \/ i > Len(use_rfs)
        \/ use_rfs[i] /\ i > Len(dataset_ann)

\* The loop that builds rfs_factors.
RfsFactors(dicts, sizes, use_rfs, dataset_ann, repeat_threshold) ==
    Concat([i \in 1..Len(sizes) |->
        IF use_rfs[i]
        THEN Renormalize(
                IF dataset_ann[i] = "box"
                THEN RepeatFactorsFromCategoryFrequency(Slice(dicts, sizes, i), repeat_threshold)
                ELSE RepeatFactorsFromTagFrequency(Slice(dicts, sizes, i), repeat_threshold),
                sizes[i])
        ELSE Ones(sizes[i])])

\* use_cas[i] raises IndexError beyond its list.
CasIndexError(sizes, use_cas) == \E i \in 1..Len(sizes) : i > Len(use_cas)

\* Variant: the class-balance factors are computed whatever use_cas says.
CasFactorsAlways(dicts, sizes, use_cas) ==
    Concat([i \in 1..Len(sizes) |->
        Renormalize(GetClassBalanceFactorPerDataset(Slice(dicts, sizes, i)), sizes[i])])

\* The loop that builds cas_factors.
CasFactors(dicts, sizes, use_cas) ==
    Concat([i \in 1..Len(sizes) |->
        IF use_cas[i]
        THEN Renormalize(GetClassBalanceFactorPerDataset(Slice(dicts, sizes, i)), sizes[i])
        ELSE Ones(sizes[i])])

\* self.weights when __init__ returns: the assignment `dataset_weight * rfs_factors`
\* is replaced by the later assignment `dataset_weight * cas_factors`.
Weights(dataset_weight, rfs_factors, cas_factors) ==
    [k \in 1..Len(dataset_weight) |-> RMul(dataset_weight[k], cas_factors[k])]

NoSampler ==
    [status |-> "none", sizes |-> <<>>, weights |-> <<>>, sample_epoch_size |-> 0,
     seed |-> 0, rank |-> 0, world_size |-> 0]

\* MultiDatasetSampler.__init__, in the order of the code.
SamplerInit(dicts, c, rank, shared) ==
    IF SizesIndexError(dicts, c.dataset_ratio)
    THEN [NoSampler EXCEPT !.status = "IndexError"]
    ELSE LET sizes == Sizes(dicts, c.dataset_ratio)
         IN  IF ~RatioAssert(c.dataset_ratio, sizes)
             THEN [NoSampler EXCEPT !.status = "AssertionError"]
             ELSE IF RfsIndexError(sizes, c.use_rfs, c.dataset_ann)
                     \/ CasIndexError(sizes, c.use_cas)
             THEN [NoSampler EXCEPT !.status = "IndexError"]
             ELSE LET w == Weights(DatasetWeight(sizes, c.dataset_ratio),
                                   RfsFactors(dicts, sizes, c.use_rfs, c.dataset_ann,
                                              c.repeat_threshold),
                                   CasFactors(dicts, sizes, c.use_cas))
                  IN  [status |-> "ok", sizes |-> sizes, weights |-> w,
                       sample_epoch_size |-> Len(w),
                       seed |-> SeedOf(c.seed, shared), rank |-> rank,
                       world_size |-> c.world_size]

-----------------------------------------------------------------------------
(* MultiDatasetSampler.__iter__ and _infinite_indices *)

\* g.manual_seed(self._seed): the generator is a 4-bit linear congruential generator.
ManualSeed(seed) == seed % 16

\* The next state of the generator.
NextG(g) == (5 * g + 3) % 16

\* torch.multinomial raises RuntimeError for a weight that is nan or negative and
\* for weights whose sum is not positive.
MultinomialError(weights) ==
    \/ \E k \in 1..Len(weights) : IsNaN(weights[k]) \/ weights[k][1] < 0
    \/ ~RPositive(RSum(weights))

\* One draw: the 0-based index whose share of the cumulated weights holds u / 16.
Draw(weights, u) ==
    LET x == RMul(Frac(u, 16), RSum(weights))
    IN  (CHOOSE k \in 1..Len(weights) :
            /\ RLess(x, RSum(SubSeq(weights, 1, k)))
            /\ \A j \in 1..(k - 1) : ~RLess(x, RSum(SubSeq(weights, 1, j)))) - 1

\* torch.multinomial(weights, n, generator=g, replacement=True): n draws, each
\* advancing the generator.
RECURSIVE Multinomial(_, _, _)
Multinomial(weights, n, g) ==
    IF n = 0 THEN [ids |-> <<>>, g |-> g]
    ELSE LET g1 == NextG(g)
             rest == Multinomial(weights, n - 1, g1)
         IN  [ids |-> <<Draw(weights, g1)>> \o rest.ids, g |-> rest.g]

NoIter == [pc |-> "none", inst |-> 0, g |-> 0, ids |-> <<>>, idx |-> 0,
           seen |-> <<>>, out |-> <<>>, outpos |-> <<>>]

\* A new generator of _infinite_indices, at its first line.
NewIter(inst, s) == [NoIter EXCEPT !.pc = "run", !.inst = inst, !.g = ManualSeed(s.seed)]

\* Variant: every round is drawn from a generator seeded anew.
PullOneReseeded(it, s) ==
    IF it.pc # "run" THEN it
    ELSE IF it.idx = Len(it.ids) /\ MultinomialError(s.weights)
    THEN [it EXCEPT !.pc = "RuntimeError"]
    ELSE LET fresh == it.idx = Len(it.ids)
             round == IF fresh
                      THEN Multinomial(s.weights, s.sample_epoch_size, ManualSeed(s.seed))
                      ELSE [ids |-> it.ids, g |-> it.g]
             i == IF fresh THEN 0 ELSE it.idx
         IN  [it EXCEPT !.ids = round.ids, !.g = round.g, !.idx = i + 1,
                        !.seen = Append(it.seen, round.ids[i + 1])]

\* next() on the generator of _infinite_indices: a new round of sample_epoch_size
\* draws when the previous one is used up, then the next index of the round.
PullOne(it, s) ==
    IF it.pc # "run" THEN it
    ELSE IF it.idx = Len(it.ids) /\ MultinomialError(s.weights)
    THEN [it EXCEPT !.pc = "RuntimeError"]
    ELSE LET fresh == it.idx = Len(it.ids)
             round == IF fresh THEN Multinomial(s.weights, s.sample_epoch_size, it.g)
                      ELSE [ids |-> it.ids, g |-> it.g]
             i == IF fresh THEN 0 ELSE it.idx
         IN  [it EXCEPT !.ids = round.ids, !.g = round.g, !.idx = i + 1,
                        !.seen = Append(it.seen, round.ids[i + 1])]

RECURSIVE PullN(_, _, _)
PullN(it, s, n) == IF n = 0 THEN it ELSE PullN(PullOne(it, s), s, n - 1)

\* Variant: every rank starts at the first element.
IslicePullsNoStart(start, step, k) == IF k = 0 THEN 1 ELSE step

\* itertools.islice(iterable, start, None, step): the elements it takes from the
\* iterable for its k-th result (k = 0, 1, ...).
IslicePulls(start, step, k) == IF k = 0 THEN start + 1 ELSE step

\* next() on the iterator returned by __iter__.
IterNext(it, s) ==
    LET p == PullN(it, s, IslicePulls(s.rank, s.world_size, Len(it.out)))
    IN  IF p.pc # "run" THEN p
        ELSE [p EXCEPT !.out = Append(p.out, p.seen[Len(p.seen)]),
                       !.outpos = Append(p.outpos, Len(p.seen) - 1)]

-----------------------------------------------------------------------------
(* The sampling pipeline as a state machine. *)

\* The sampler objects and the iterators of the model.
Insts == {1, 2}
Slots == {1, 2}

\* Values of comm.shared_random_seed().
SharedSeeds == {1, 2}

\* A record of a dataset: the category ids of its annotations and its pos_category_ids.
RecNone == [cats |-> {}, tags |-> <<>>]
RecOne == [cats |-> {1}, tags |-> <<1>>]
RecTwo == [cats |-> {1, 2}, tags |-> <<2, 2>>]
RecShapes == {RecNone, RecOne, RecTwo}

NoCfg == [dataset_ratio |-> <<>>, use_rfs |-> <<>>, use_cas |-> <<>>, dataset_ann |-> <<>>,
          repeat_threshold |-> <<1, 1>>, seed |-> <<>>, world_size |-> 1, insts |-> {}]

\* Configurations whose lists are aligned with n datasets.
AlignedCfgs(n) ==
    [dataset_ratio : {[i \in 1..n |-> 1], [i \in 1..n |-> i]}, use_rfs : [1..n -> BOOLEAN],
     use_cas : [1..n -> BOOLEAN],
     dataset_ann : {[i \in 1..n |-> "box"], [i \in 1..n |-> "tag"]},
     repeat_threshold : {<<1, 1>>, <<1, 2>>}, seed : {<<1>>}, world_size : {1},
     insts : {{1}}]

\* Configurations whose lists have any length up to MaxCfgLen.
AnyLengthCfgs ==
    [dataset_ratio : SeqsOf({1}, 1, MaxCfgLen), use_rfs : SeqsOf(BOOLEAN, 1, MaxCfgLen),
     use_cas : SeqsOf(BOOLEAN, 1, MaxCfgLen),
     dataset_ann : {[i \in 1..MaxCfgLen |-> "tag"]},
     repeat_threshold : {<<1, 1>>}, seed : {<<1>>}, world_size : {1}, insts : {{1}}]

\* Configurations of two sampler objects that are iterated.
IterCfgs(n) ==
    [dataset_ratio : {[i \in 1..n |-> 1], [i \in 1..n |-> i]},
     use_rfs : {[i \in 1..n |-> FALSE]},
     use_cas : {[i \in 1..n |-> FALSE], [i \in 1..n |-> TRUE]},
     dataset_ann : {[i \in 1..n |-> "box"]},
     repeat_threshold : {<<1, 1>>}, seed : {<<>>, <<1>>, <<2>>}, world_size : {1, 2},
     insts : {Insts}]

\* Catalogs of n datasets: up to MaxPerDataset records in the first dataset and
\* fewer in the others; a dataset may be empty.
Catalogs(n) ==
    {c \in [1..n -> SeqsOf(RecShapes, 0, MaxPerDataset)] :
        \A i \in 2..n : Len(c[i]) < MaxPerDataset}

\* Two datasets of 100 and of 10 records.
LargeCatalog == <<[k \in 1..100 |-> RecOne], [k \in 1..10 |-> RecTwo]>>

\* Configurations of equal ratios for two datasets, the first without repeat
\* factors and class balancing.
EqualRatioCfgs ==
    {c \in AlignedCfgs(2) :
        /\ c.dataset_ratio = <<1, 1>>
        /\ ~c.use_rfs[1] /\ ~c.use_cas[1]
        /\ c.repeat_threshold = <<1, 1>>}

SIdle ==
    /\ dataset_dicts = NoDicts
    /\ samplers = [i \in Insts |-> NoSampler]
    /\ iters = [i \in Slots |-> NoIter]

SInit ==
    /\ SIdle
    /\ \/ \E n \in {1, 2} :
            /\ catalog \in Catalogs(n)
            /\ cfg \in AlignedCfgs(n)
       \/ /\ catalog \in {<<<<RecOne>>>>, <<<<RecOne>>, <<RecOne>>>>}
          /\ cfg \in AnyLengthCfgs
       \/ /\ catalog = LargeCatalog
          /\ cfg \in EqualRatioCfgs

SIterInit ==
    /\ SIdle
    /\ \E n \in {1, 2} :
          /\ catalog \in [1..n -> {<<RecOne, RecNone>>, <<RecNone>>}]
          /\ cfg \in IterCfgs(n)

\* The values of min_keypoints the merger is called with.
KeypointMinima == {0, 1}

\* _custom_train_loader_from_config: the merged record list.
GetDicts ==
    /\ dataset_dicts.status = "none"
    /\ \E filter_empty \in BOOLEAN, min_keypoints \in KeypointMinima :
          dataset_dicts' = GetDetectionDatasetDictsWithSource(catalog, filter_empty,
                                                              min_keypoints)
    /\ UNCHANGED <<catalog, cfg, samplers, iters, gvars>>

\* MultiDatasetSampler(dataset_dicts, ...) in a process of rank comm.get_rank().
Construct(inst) ==
    /\ inst \in cfg.insts
    /\ dataset_dicts.status = "ok"
    /\ samplers[inst].status = "none"
    /\ \E rank \in 0..(cfg.world_size - 1), shared \in SharedSeeds :
          samplers' = [samplers EXCEPT
                          ![inst] = SamplerInit(dataset_dicts.dicts, cfg, rank, shared)]
    /\ UNCHANGED <<catalog, cfg, dataset_dicts, iters, gvars>>

\* iter(sampler)
StartIter(slot, inst) ==
    /\ samplers[inst].status = "ok"
    /\ iters[slot].pc = "none"
    /\ iters' = [iters EXCEPT ![slot] = NewIter(inst, samplers[inst])]
    /\ UNCHANGED <<catalog, cfg, dataset_dicts, samplers, gvars>>

\* Variant: the iterators draw from one generator shared by the process.
NextIndexSharedGenerator(slot) ==
    /\ iters[slot].pc = "run"
    /\ Len(iters[slot].out) < MaxDraws
    /\ LET nxt == IterNext(iters[slot], samplers[iters[slot].inst])
       IN  iters' = [o \in Slots |->
                        IF o = slot THEN nxt ELSE [iters[o] EXCEPT !.g = nxt.g]]
    /\ UNCHANGED <<catalog, cfg, dataset_dicts, samplers, gvars>>

\* next(iterator)
NextIndex(slot) ==
    /\ iters[slot].pc = "run"
    /\ Len(iters[slot].out) < MaxDraws
    /\ iters' = [iters EXCEPT ![slot] = IterNext(iters[slot], samplers[iters[slot].inst])]
    /\ UNCHANGED <<catalog, cfg, dataset_dicts, samplers, gvars>>

SNext == GetDicts \/ \E inst \in Insts : Construct(inst)

SIterNext ==
    \/ GetDicts
    \/ \E inst \in Insts : Construct(inst)
    \/ \E slot \in Slots, inst \in Insts : StartIter(slot, inst)
    \/ \E slot \in Slots : NextIndex(slot)

-----------------------------------------------------------------------------
(* The batch groupers. *)

\* Inputs of build_multi_dataset_batch_data_loader.
TotalBatchSizes == {-2, 0, 2, 4}
WorldSizes == {1, 2}
DatasetBsValues == {-1, 0, 1, 2}
NumDatasetsValues == {1, 2}
\* (width, height) of a record: wide, tall, square.
Shapes == {<<2, 1>>, <<1, 2>>, <<1, 1>>}

NoGrouper == [kind |-> "none", batch_size |-> 0, batch_sizes |-> <<>>,
              num_datasets |-> 0, buckets |-> <<>>]

\* MDAspectRatioGroupedDataset.__init__
MDInit(batch_size, num_datasets) ==
    [kind |-> "MD", batch_size |-> batch_size, batch_sizes |-> <<>>,
     num_datasets |-> num_datasets,
     buckets |-> [b \in 1..(2 * num_datasets) |-> <<>>]]

\* DIFFMDAspectRatioGroupedDataset.__init__
DIFFInit(batch_sizes, num_datasets) ==
    [kind |-> "DIFF", batch_size |-> 0, batch_sizes |-> batch_sizes,
     num_datasets |-> num_datasets,
     buckets |-> [b \in 1..(2 * num_datasets) |-> <<>>]]

\* The assertion of build_multi_dataset_batch_data_loader.
LoaderAssert(total_batch_size, world_size) ==
    total_batch_size > 0 /\ total_batch_size % world_size = 0

\* Variant: a square record is classed with the wide ones.
AspectRatioBucketIdSquareWide(d) == IF d.width >= d.height THEN 0 ELSE 1

\* aspect_ratio_bucket_id = 0 if w > h else 1
AspectRatioBucketId(d) == IF d.width > d.height THEN 0 ELSE 1

\* bucket_id = d["dataset_source"] * 2 + aspect_ratio_bucket_id   (0-based)
BucketId(d) == d.dataset_source * 2 + AspectRatioBucketId(d)

\* Whether the grouper has a target for the dataset: self.batch_sizes[ds] raises
\* IndexError when the list has no such entry.
HasTarget(g, ds) == g.kind = "MD" \/ ds + 1 \in 1..Len(g.batch_sizes)

\* The target the grouper compares len(bucket) with.
Target(g, ds) == IF g.kind = "MD" THEN g.batch_size ELSE g.batch_sizes[ds + 1]

\* Variant: the bucket is emitted one record early.
BucketFullEarly(bucket, target) == Len(bucket) + 1 = target

\* len(bucket) == self.batch_size   /   len(bucket) == self.batch_sizes[...]
BucketFull(bucket, target) == Len(bucket) = target

\* Variant: every bucket is emptied after an emission.
DelAllBuckets(buckets, b) == [o \in DOMAIN buckets |-> <<>>]

\* del bucket[:]  (the bucket the generator holds; the other buckets are not touched)
DelBucket(buckets, b) == [buckets EXCEPT ![b] = <<>>]

\* No second generator: the grouper is iterated by one generator at a time.
NoGen == [pc |-> "none", cur |-> 0]

\* A second generator that iter() has not created yet.
UnbornGen == [pc |-> "unborn", cur |-> 0]

\* The generators of one grouper: the first is held in gpc and cur, the second in gen2.
GenSlots == {1, 2}

PcOf(slot) == IF slot = 1 THEN gpc ELSE gen2.pc

CurOf(slot) == IF slot = 1 THEN cur ELSE gen2.cur

\* The generator of a slot moves to position pc holding bucket c; the other
\* generator stays where it is.
SetGen(slot, pc, c) ==
    IF slot = 1
    THEN gpc' = pc /\ cur' = c /\ gen2' = gen2
    ELSE gen2' = [pc |-> pc, cur |-> c] /\ gpc' = gpc /\ cur' = cur

StreamCap ==
    IF gen2.pc # "none" THEN MaxInterleaved
    ELSE IF grouper.num_datasets = 1 THEN MaxStreamOne ELSE MaxStreamTwo

GIdle ==
    /\ grouper = NoGrouper
    /\ gpc = "none"
    /\ cur = 0
    /\ gen2 = NoGen
    /\ consumed = <<>>
    /\ emitted = <<>>
    /\ emit_at = <<>>

\* build_multi_dataset_batch_data_loader: the assertion, then one of the groupers.
BuildLoader ==
    /\ gpc = "none"
    /\ \E use_diff_bs_size \in BOOLEAN, total_batch_size \in TotalBatchSizes,
          world_size \in WorldSizes, num_datasets \in NumDatasetsValues,
          dataset_bs \in SeqsOf(DatasetBsValues, 1, 2) :
          IF ~LoaderAssert(total_batch_size, world_size)
          THEN /\ gpc' = "AssertionError"
               /\ grouper' = NoGrouper
          ELSE /\ gpc' = "loop"
               /\ grouper' = IF use_diff_bs_size
                             THEN DIFFInit(dataset_bs, num_datasets)
                             ELSE MDInit(total_batch_size \div world_size, num_datasets)
    /\ UNCHANGED <<cur, gen2, consumed, emitted, emit_at, svars>>

\* One pass of the body of `for d in self.dataset` up to the yield (or the end of
\* the body), in the generator of a slot.
Take(slot) ==
    /\ PcOf(slot) = "loop"
    /\ Len(consumed) < StreamCap
    /\ \E ds \in 0..(grouper.num_datasets - 1), wh \in Shapes :
        LET d == [dataset_source |-> ds, width |-> wh[1], height |-> wh[2],
                  id |-> Len(consumed) + 1, slot |-> slot]
            b == BucketId(d) + 1
            bucket == Append(grouper.buckets[b], d)
        IN  /\ consumed' = Append(consumed, d)
            /\ grouper' = [grouper EXCEPT !.buckets[b] = bucket]
            /\ UNCHANGED svars
            /\ IF ~HasTarget(grouper, ds)
               THEN /\ SetGen(slot, "IndexError", CurOf(slot))
                    /\ UNCHANGED <<emitted, emit_at>>
               ELSE IF BucketFull(bucket, Target(grouper, ds))
               THEN /\ SetGen(slot, "yield", b)
                    /\ emitted' = Append(emitted, bucket)
                    /\ emit_at' = Append(emit_at, Len(consumed) + 1)
               ELSE /\ SetGen(slot, "loop", CurOf(slot))
                    /\ UNCHANGED <<emitted, emit_at>>

\* Continue for a generator that yields the bucket itself instead of a copy:
\* `del bucket[:]` then empties the batch the consumer holds.
ContinueYieldingBucket(slot) ==
    /\ PcOf(slot) = "yield"
    /\ grouper' = [grouper EXCEPT !.buckets = DelBucket(grouper.buckets, CurOf(slot))]
    /\ emitted' = [j \in 1..Len(emitted) |->
                      IF BucketId(emitted[j][1]) + 1 = CurOf(slot)
                      THEN <<>> ELSE emitted[j]]
    /\ SetGen(slot, "loop", 0)
    /\ UNCHANGED <<consumed, emit_at, svars>>

\* The consumer asks the generator of a slot for the next batch: the generator
\* resumes after the yield with `del bucket[:]`.
Continue(slot) ==
    /\ PcOf(slot) = "yield"
    /\ grouper' = [grouper EXCEPT !.buckets = DelBucket(grouper.buckets, CurOf(slot))]
    /\ SetGen(slot, "loop", 0)
    /\ UNCHANGED <<consumed, emitted, emit_at, svars>>

\* The first generator takes a record.
Consume == Take(1)

\* The first generator resumes after its yield.
Resume == Continue(1)

\* iter() on the grouper again: a new generator over the same self._buckets; the
\* previous generator is dropped where it stands (at a yield, before its `del bucket[:]`).
Reiter ==
    /\ gpc \in {"yield", "IndexError"}
    /\ gpc' = "loop"
    /\ cur' = 0
    /\ UNCHANGED <<grouper, gen2, consumed, emitted, emit_at, svars>>

\* Variant: iter() on the grouper starts from empty buckets.
StartSecondFreshBuckets ==
    /\ grouper.kind # "none"
    /\ gen2.pc = "unborn"
    /\ gen2' = [pc |-> "loop", cur |-> 0]
    /\ grouper' = [grouper EXCEPT !.buckets = [b \in DOMAIN grouper.buckets |-> <<>>]]
    /\ UNCHANGED <<gpc, cur, consumed, emitted, emit_at, svars>>

\* iter() on the grouper while its first generator exists: a second generator over
\* the same self._buckets.
StartSecond ==
    /\ grouper.kind # "none"
    /\ gen2.pc = "unborn"
    /\ gen2' = [pc |-> "loop", cur |-> 0]
    /\ UNCHANGED <<grouper, gpc, cur, consumed, emitted, emit_at, svars>>

\* Variant: at the end of the stream the generator hands out what is left in its
\* first non-empty bucket.
EndOfStreamFlush(slot) ==
    /\ PcOf(slot) = "loop"
    /\ SetGen(slot, "done", 0)
    /\ LET left == {b \in DOMAIN grouper.buckets : grouper.buckets[b] # <<>>}
       IN  IF left = {}
           THEN UNCHANGED <<emitted, emit_at>>
           ELSE /\ emitted' = Append(emitted, grouper.buckets[CHOOSE b \in left : TRUE])
                /\ emit_at' = Append(emit_at, Len(consumed))
    /\ UNCHANGED <<grouper, consumed, svars>>

\* self.dataset is exhausted: the for loop ends and the generator returns.
EndOfStream(slot) ==
    /\ PcOf(slot) = "loop"
    /\ SetGen(slot, "done", 0)
    /\ UNCHANGED <<grouper, consumed, emitted, emit_at, svars>>

\* The consumer drops the generator at a yield: it is closed where it stands,
\* before its `del bucket[:]`.
Close(slot) ==
    /\ PcOf(slot) = "yield"
    /\ SetGen(slot, "closed", 0)
    /\ UNCHANGED <<grouper, consumed, emitted, emit_at, svars>>

GNext == BuildLoader \/ Consume \/ Resume

GNextReiter == BuildLoader \/ Consume \/ Resume \/ Reiter

GInit == GIdle /\ SIdle /\ catalog = <<>> /\ cfg = NoCfg

\* One iteration of a grouper.
Spec == GInit /\ [][GNext]_vars

\* A grouper iterated any number of times.
SpecReiter == GInit /\ [][GNextReiter]_vars

InitSampler == SInit /\ GIdle

GNextTwo ==
    \/ BuildLoader
    \/ StartSecond
    \/ \E slot \in GenSlots : Take(slot)
    \/ \E slot \in GenSlots : Continue(slot)
    \/ EndOfStream(1)
    \/ Close(1)

GInitTwo ==
    /\ grouper = NoGrouper
    /\ gpc = "none"
    /\ cur = 0
    /\ gen2 = UnbornGen
    /\ consumed = <<>>
    /\ emitted = <<>>
    /\ emit_at = <<>>
    /\ SIdle /\ catalog = <<>> /\ cfg = NoCfg

\* A grouper iterated by two generators: the first ends, is dropped or runs
\* interleaved with the second.
SpecTwo == GInitTwo /\ [][GNextTwo]_vars

\* Merging the datasets and constructing a sampler.
SpecSampler == InitSampler /\ [][SNext]_vars

InitIter == SIterInit /\ GIdle

\* Two samplers over one configuration and their iterators.
SpecIter == InitIter /\ [][SIterNext]_vars

-----------------------------------------------------------------------------
(* Properties of the sampler. *)

\* The sampler an iterator was obtained from.
SamplerOf(slot) == samplers[iters[slot].inst]

Started(slot) == iters[slot].pc # "none"

\* s and t agree wherever both are defined.
AgreeOnPrefix(s, t) == \A k \in 1..Min2(Len(s), Len(t)) : s[k] = t[k]

\* C2: the k-th index of rank r is the element at position r + k * world_size of the
\* stream of its seed; two ranks of one seed read one stream, at disjoint positions,
\* and all ranks together leave no position out.
C2_RanksPartition ==
    \A a \in Slots : Started(a) =>
        /\ \A k \in 1..Len(iters[a].out) :
              /\ iters[a].outpos[k] = SamplerOf(a).rank + (k - 1) * SamplerOf(a).world_size
              /\ iters[a].out[k] = iters[a].seen[iters[a].outpos[k] + 1]
        /\ \A b \in Slots :
              (Started(b) /\ SamplerOf(a).seed = SamplerOf(b).seed) =>
                  /\ AgreeOnPrefix(iters[a].seen, iters[b].seen)
                  /\ SamplerOf(a).rank # SamplerOf(b).rank =>
                        /\ Range(iters[a].outpos) \cap Range(iters[b].outpos) = {}
                        /\ (cfg.world_size = 2 /\ Len(iters[a].out) = Len(iters[b].out)) =>
                              Range(iters[a].outpos) \cup Range(iters[b].outpos)
                                  = 0..(2 * Len(iters[a].out) - 1)

\* Ranks 0 and 1 of one seed have drawn two indices each, past a round boundary,
\* and did not draw the same indices.
C2_Witness ==
    /\ cfg.world_size = 2
    /\ Started(1) /\ Started(2)
    /\ SamplerOf(1).seed = SamplerOf(2).seed
    /\ SamplerOf(1).rank = 0 /\ SamplerOf(2).rank = 1
    /\ SamplerOf(1).sample_epoch_size = 2
    /\ Len(iters[1].out) = 2 /\ Len(iters[2].out) = 2
    /\ iters[1].out # iters[2].out

\* C3: two samplers constructed from one configuration with a given seed, in
\* processes of the same rank, yield the same indices; so do any two samplers of
\* equal seed and rank.
C3_Deterministic ==
    \A a, b \in Slots :
        (/\ Started(a) /\ Started(b)
         /\ SamplerOf(a).rank = SamplerOf(b).rank
         /\ cfg.seed # <<>> \/ SamplerOf(a).seed = SamplerOf(b).seed)
        => AgreeOnPrefix(iters[a].out, iters[b].out)

\* Two sampler objects constructed with a given seed were each asked for two
\* indices or more, and the indices are not all the same.
C3_Witness ==
    /\ cfg.seed # <<>>
    /\ Started(1) /\ Started(2)
    /\ iters[1].inst # iters[2].inst
    /\ SamplerOf(1).rank = SamplerOf(2).rank
    /\ Len(iters[1].out) >= 2 /\ Len(iters[2].out) >= 2
    /\ iters[1].out[1] # iters[1].out[2]

\* The three factors of the weights, from the configuration and the merged records.
FactorProduct(s) ==
    LET dw == DatasetWeight(s.sizes, cfg.dataset_ratio)
        rfs == RfsFactors(dataset_dicts.dicts, s.sizes, cfg.use_rfs, cfg.dataset_ann,
                          cfg.repeat_threshold)
        cas == CasFactors(dataset_dicts.dicts, s.sizes, cfg.use_cas)
    IN  [k \in 1..Len(dw) |-> RMul(RMul(dw[k], rfs[k]), cas[k])]

\* C4: the weight of every record of a constructed sampler is
\* dataset_weight * repeat_factor * class_balance_factor.
C4_WeightIsProduct ==
    \A i \in Insts :
        samplers[i].status = "ok" => samplers[i].weights = FactorProduct(samplers[i])

\* After a step every weight of a constructed sampler is strictly positive, and the
\* step did not change the weights of a sampler that was already constructed.
C7_Step ==
    \A i \in Insts :
        samplers'[i].status = "ok" =>
            /\ \A k \in 1..Len(samplers'[i].weights) : RPositive(samplers'[i].weights[k])
            /\ samplers[i].status = "ok" => samplers'[i].weights = samplers[i].weights

\* C7: every weight of a constructed sampler is strictly positive, whatever the
\* records and flags, and iteration does not change the weights.
C7_WeightsPositive == [][C7_Step]_vars

\* C8: a dataset_ratio with more or fewer entries than there are datasets is
\* refused by the length assertion of the constructor.
C8_RatioLengthChecked ==
    \A i \in Insts :
        (samplers[i].status # "none" /\ Len(cfg.dataset_ratio) # Len(catalog))
            => samplers[i].status = "AssertionError"

\* C9: with use_rfs or use_cas longer or shorter than the number of datasets the
\* constructor fails.
C9_FlagLengthsChecked ==
    \A i \in Insts :
        (/\ samplers[i].status # "none"
         /\ Len(cfg.dataset_ratio) = Len(catalog)
         /\ Len(cfg.use_rfs) # Len(catalog) \/ Len(cfg.use_cas) # Len(catalog))
        => samplers[i].status \in {"AssertionError", "IndexError"}

\* C12: when an input dataset has no records the merger fails and no sampler is
\* constructed; no constructed sampler has a dataset index of size 0.
C12_EmptyDatasetRejected ==
    /\ (dataset_dicts.status # "none" /\ \E i \in 1..Len(catalog) : Len(catalog[i]) = 0)
          => /\ dataset_dicts.status = "AssertionError"
             /\ \A inst \in Insts : samplers[inst].status = "none"
    /\ \A inst \in Insts :
          samplers[inst].status = "ok" =>
              \A i \in 1..Len(samplers[inst].sizes) : samplers[inst].sizes[i] > 0

\* C13: once the constructor has succeeded no sampling round fails: an iterator of
\* a constructed sampler is never stopped by an error, in its first round or later.
C13_DrawingNeverFails ==
    \A slot \in Slots :
        (Started(slot) /\ SamplerOf(slot).status = "ok") => iters[slot].pc = "run"

\* The number of records of the datasets before dataset i.
RecordsBefore(i) == IntSum([j \in 1..(i - 1) |-> Len(catalog[j])])

\* C14: the merged list is the concatenation of the datasets in order: the k-th
\* record of dataset i is at position RecordsBefore(i) + k with dataset_source i - 1,
\* the records of a dataset precede those of the next, and the sizes of a constructed
\* sampler are the lengths of the datasets and add up to the number of records.
C14_MergedInOrder ==
    dataset_dicts.status = "ok" =>
        LET D == dataset_dicts.dicts
        IN  /\ Len(D) = RecordsBefore(Len(catalog) + 1)
            /\ \A i \in 1..Len(catalog) : \A k \in 1..Len(catalog[i]) :
                  /\ D[RecordsBefore(i) + k].dataset_source = i - 1
                  /\ D[RecordsBefore(i) + k].cats = catalog[i][k].cats
                  /\ D[RecordsBefore(i) + k].tags = catalog[i][k].tags
            /\ \A x, y \in 1..Len(D) :
                  x < y => D[x].dataset_source <= D[y].dataset_source
            /\ \A inst \in Insts :
                  samplers[inst].status = "ok" =>
                      /\ \A i \in 1..Len(samplers[inst].sizes) :
                            samplers[inst].sizes[i]
                                = IF i <= Len(catalog) THEN Len(catalog[i]) ELSE 0
                      /\ IntSum(samplers[inst].sizes) = Len(D)

\* Two datasets, the first of two different records and the second of one, were
\* merged and a sampler was constructed over them.
C14_Witness ==
    /\ dataset_dicts.status = "ok"
    /\ Len(catalog) = 2
    /\ Len(catalog[1]) = 2 /\ Len(catalog[2]) = 1
    /\ catalog[1][1] # catalog[1][2]
    /\ samplers[1].status = "ok"
    /\ samplers[1].sizes = <<2, 1>>

\* C15: the iterator of a constructed sampler over at least one record has no
\* terminal state: whatever the number of indices it has yielded, it is still
\* running and can be asked for another one; every index it yielded is in
\* 0..len(records)-1.
C15_NoTerminalState ==
    \A slot \in Slots :
        (/\ Started(slot)
         /\ SamplerOf(slot).status = "ok"
         /\ Len(dataset_dicts.dicts) >= 1)
        => /\ iters[slot].pc = "run"
           /\ \A k \in 1..Len(iters[slot].out) :
                 iters[slot].out[k] \in 0..(Len(dataset_dicts.dicts) - 1)

\* The position before the first record of dataset i (1-based) of sampler s.
FirstOf(s, i) == IntSum(SubSeq(s.sizes, 1, i - 1))

\* max(sizes) / sizes[i] * ratio[i] / sum(ratio)
PerDatasetConstant(s, i) ==
    RMul(RDiv(FromInt(IntMax(s.sizes)), FromInt(s.sizes[i])),
         RDiv(FromInt(cfg.dataset_ratio[i]), FromInt(IntSum(cfg.dataset_ratio))))

\* C16: every record of a dataset whose weight is its dataset_weight alone (no class
\* balancing) has the weight max(sizes) / sizes[i] * ratio[i] / sum(ratio); for sizes
\* [100, 10] and ratio [1, 1] these are 0.5 and 5.0; with equal ratios
\* sizes[i] * dataset_weight[i] is the same for all such datasets.
C16_DatasetWeight ==
    \A inst \in Insts :
        samplers[inst].status = "ok" =>
            LET s == samplers[inst]
                plain == {i \in 1..Len(s.sizes) : s.sizes[i] > 0 /\ ~cfg.use_cas[i]}
            IN  /\ \A i \in plain : \A k \in 1..s.sizes[i] :
                      s.weights[FirstOf(s, i) + k] = PerDatasetConstant(s, i)
                /\ (s.sizes = <<100, 10>> /\ cfg.dataset_ratio = <<1, 1>>) =>
                      /\ 1 \in plain => s.weights[1] = Frac(1, 2)
                      /\ 2 \in plain => s.weights[101] = Frac(5, 1)
                /\ (\A i, j \in 1..Len(cfg.dataset_ratio) :
                        cfg.dataset_ratio[i] = cfg.dataset_ratio[j]) =>
                      \A i, j \in plain :
                          RMul(FromInt(s.sizes[i]), s.weights[FirstOf(s, i) + 1])
                              = RMul(FromInt(s.sizes[j]), s.weights[FirstOf(s, j) + 1])

\* A sampler over datasets of 100 and 10 records with ratio [1, 1] and no class
\* balancing was constructed, with weights 0.5 and 5.0.
C16_Witness ==
    /\ samplers[1].status = "ok"
    /\ samplers[1].sizes = <<100, 10>>
    /\ cfg.dataset_ratio = <<1, 1>>
    /\ cfg.use_cas = <<FALSE, FALSE>>
    /\ samplers[1].weights[1] = <<1, 2>>
    /\ samplers[1].weights[110] = <<5, 1>>

\* The flags of dataset i alone, every other dataset's flag being off.
OnlyFlagOf(flags, i) == [j \in 1..Len(flags) |-> j = i /\ flags[j]]

\* The entries of a per-record array that belong to dataset i of sampler s.
PartOf(array, s, i) == SubSeq(array, FirstOf(s, i) + 1, FirstOf(s, i) + s.sizes[i])

\* C17: for a dataset with use_rfs and use_cas off both factor arrays are all ones
\* and the weight of each of its records is its dataset_weight, also when it has
\* one record; the factors of a dataset are those it has when the flags of every
\* other dataset are off.
C17_FlagsOff ==
    \A inst \in Insts :
        samplers[inst].status = "ok" =>
            LET s == samplers[inst]
                D == dataset_dicts.dicts
                rfs(flags) == RfsFactors(D, s.sizes, flags, cfg.dataset_ann,
                                         cfg.repeat_threshold)
                cas(flags) == CasFactors(D, s.sizes, flags)
            IN  \A i \in 1..Len(s.sizes) :
                    /\ (~cfg.use_rfs[i] /\ ~cfg.use_cas[i]) =>
                          \A k \in 1..s.sizes[i] :
                              /\ rfs(cfg.use_rfs)[FirstOf(s, i) + k] = FromInt(1)
                              /\ cas(cfg.use_cas)[FirstOf(s, i) + k] = FromInt(1)
                              /\ s.weights[FirstOf(s, i) + k] = PerDatasetConstant(s, i)
                    /\ PartOf(rfs(cfg.use_rfs), s, i)
                          = PartOf(rfs(OnlyFlagOf(cfg.use_rfs, i)), s, i)
                    /\ PartOf(cas(cfg.use_cas), s, i)
                          = PartOf(cas(OnlyFlagOf(cfg.use_cas, i)), s, i)

\* A dataset of one record with both flags off stands after a dataset with both
\* flags on whose two records have different class-balance weights.
C17_Witness ==
    /\ samplers[1].status = "ok"
    /\ samplers[1].sizes = <<2, 1>>
    /\ cfg.use_rfs = <<TRUE, FALSE>> /\ cfg.use_cas = <<TRUE, FALSE>>
    /\ samplers[1].weights[3] = PerDatasetConstant(samplers[1], 2)
    /\ samplers[1].weights[1] # samplers[1].weights[2]
    /\ catalog[2][1] # RecNone

\* C18: for every dataset with use_rfs on the repeat factors of its records add up
\* to its size, and for every dataset with use_cas on the class-balance factors of
\* its records add up to its size, whatever the records hold.
C18_FactorsSumToSize ==
    \A inst \in Insts :
        samplers[inst].status = "ok" =>
            LET s == samplers[inst]
                rfs == RfsFactors(dataset_dicts.dicts, s.sizes, cfg.use_rfs,
                                  cfg.dataset_ann, cfg.repeat_threshold)
                cas == CasFactors(dataset_dicts.dicts, s.sizes, cfg.use_cas)
            IN  \A i \in 1..Len(s.sizes) :
                    /\ cfg.use_rfs[i] => RSum(PartOf(rfs, s, i)) = FromInt(s.sizes[i])
                    /\ cfg.use_cas[i] => RSum(PartOf(cas, s, i)) = FromInt(s.sizes[i])

\* The datasets of sampler s whose repeat factors come from
\* repeat_factors_from_tag_frequency.
TagDatasets(s) ==
    {i \in 1..Len(s.sizes) : s.sizes[i] > 0 /\ cfg.use_rfs[i] /\ cfg.dataset_ann[i] # "box"}

\* The tags held by some record of dicts.
TagsOf(dicts) == UNION {Range(dicts[k].tags) : k \in 1..Len(dicts)}

\* (number of records that contain tag c) / (number of records)
ShareOfRecords(dicts, c) ==
    Frac(Cardinality({k \in 1..Len(dicts) : c \in Range(dicts[k].tags)}), Len(dicts))

\* C19: the frequency repeat_factors_from_tag_frequency gives a tag is the share of
\* the dataset's records that contain it, a record counting once however often its
\* pos_category_ids lists the tag; the frequency is above 0 and at most 1.
C19_TagFrequency ==
    \A inst \in Insts :
        samplers[inst].status = "ok" =>
            \A i \in TagDatasets(samplers[inst]) :
                LET part == PartOf(dataset_dicts.dicts, samplers[inst], i)
                IN  \A c \in TagsOf(part) :
                        /\ CategoryFreq(part, c) = ShareOfRecords(part, c)
                        /\ RPositive(CategoryFreq(part, c))
                        /\ ~RLess(FromInt(1), CategoryFreq(part, c))

\* rep(c) for a tag of frequency f: max(1.0, sqrt(repeat_threshold / f)).
RepOfFrequency(f) == CategoryRep(cfg.repeat_threshold, f)

\* C20: before renormalization the repeat factor of a record is the largest rep(c) of
\* its tags, and 1 when it has none; rep(c) is 1 for a tag whose frequency (the share
\* of records that contain it) is at least repeat_threshold and sqrt(threshold /
\* frequency) > 1 for a rarer tag; no factor is below 1 and a record holding a tag
\* rarer than the threshold and than every tag of another record has the larger factor.
C20_RepeatFactor ==
    \A inst \in Insts :
        samplers[inst].status = "ok" =>
            \A i \in TagDatasets(samplers[inst]) :
                LET part == PartOf(dataset_dicts.dicts, samplers[inst], i)
                    raw == RepeatFactorsFromTagFrequency(part, cfg.repeat_threshold)
                    freq(c) == ShareOfRecords(part, c)
                    tags(k) == Range(part[k].tags)
                IN  /\ \A c \in TagsOf(part) :
                          IF RLess(freq(c), cfg.repeat_threshold)
                          THEN /\ RLess(FromInt(1), RepOfFrequency(freq(c)))
                               /\ RepOfFrequency(freq(c))
                                      = Sqrt(RDiv(cfg.repeat_threshold, freq(c)))
                          ELSE RepOfFrequency(freq(c)) = FromInt(1)
                    /\ \A k \in 1..Len(part) :
                          /\ ~RLess(raw[k], FromInt(1))
                          /\ tags(k) = {} => raw[k] = FromInt(1)
                          /\ tags(k) # {} =>
                                /\ \E c \in tags(k) : raw[k] = RepOfFrequency(freq(c))
                                /\ \A c \in tags(k) : ~RLess(raw[k], RepOfFrequency(freq(c)))
                    /\ \A x, y \in 1..Len(part) :
                          (\E c \in tags(x) :
                              /\ RLess(freq(c), cfg.repeat_threshold)
                              /\ \A e \in tags(y) : RLess(freq(c), freq(e)))
                          => RLess(raw[y], raw[x])

\* (number of records that hold category c in a box annotation) / (number of records)
ShareOfBoxRecords(dicts, c) ==
    Frac(Cardinality({k \in 1..Len(dicts) : c \in dicts[k].cats}), Len(dicts))

\* The sum of 1 / freq(c) over the categories of cats, freq being the share of records.
RECURSIVE SumInverseShare(_, _)
SumInverseShare(cats, dicts) ==
    IF cats = {} THEN FromInt(0)
    ELSE LET c == CHOOSE x \in cats : TRUE
         IN  RAdd(RDiv(FromInt(1), ShareOfBoxRecords(dicts, c)),
                  SumInverseShare(cats \ {c}, dicts))

\* C21: for a dataset with use_cas on, the class-balance factor of a record is the sum
\* of 1 / freq(c) over its distinct box categories, freq being the share of the
\* dataset's records that hold c, scaled so that the factors of the dataset add up
\* to its size; the weight of the record is dataset_weight times this factor,
\* whatever repeat_threshold, use_rfs and the tags are.
C21_ClassBalanceFactor ==
    \A inst \in Insts :
        samplers[inst].status = "ok" =>
            LET s == samplers[inst]
                cas == CasFactors(dataset_dicts.dicts, s.sizes, cfg.use_cas)
            IN  \A i \in 1..Len(s.sizes) :
                    (cfg.use_cas[i] /\ s.sizes[i] > 0) =>
                        LET part == PartOf(dataset_dicts.dicts, s, i)
                            raw == [k \in 1..Len(part) |-> SumInverseShare(part[k].cats, part)]
                            scale == RDiv(FromInt(s.sizes[i]), RSum(raw))
                        IN  /\ RSum(PartOf(cas, s, i)) = FromInt(s.sizes[i])
                            /\ \A k \in 1..Len(part) :
                                  /\ PartOf(cas, s, i)[k] = RMul(raw[k], scale)
                                  /\ s.weights[FirstOf(s, i) + k]
                                        = RMul(PerDatasetConstant(s, i), RMul(raw[k], scale))

\* The iterator of sampler s after n calls of next() with nothing else going on.
RECURSIVE ConsumedAlone(_, _, _)
ConsumedAlone(it, s, n) == IF n = 0 THEN it ELSE ConsumedAlone(IterNext(it, s), s, n - 1)

\* The calls of next() an iterator has answered, the failed one included.
CallsOf(it) == IF it.pc = "run" THEN Len(it.out) ELSE Len(it.out) + 1

\* C23: whatever the interleaving of the next() calls on the two iterators, each
\* iterator is where it would be had it been consumed alone from a generator of its
\* own seeded with its sampler's seed; two iterators of one sampler yield the same
\* sequence from the beginning.
C23_IteratorsIndependent ==
    \A a \in Slots :
        Started(a) =>
            /\ iters[a] = ConsumedAlone(NewIter(iters[a].inst, SamplerOf(a)), SamplerOf(a),
                                        CallsOf(iters[a]))
            /\ \A b \in Slots :
                  (Started(b) /\ iters[a].inst = iters[b].inst)
                      => AgreeOnPrefix(iters[a].out, iters[b].out)

\* Two iterators of one sampler over two records: one has yielded three indices, past a
\* round boundary, the other two, and the indices are not all the same.
C23_Witness ==
    /\ Started(1) /\ Started(2)
    /\ iters[1].inst = iters[2].inst
    /\ SamplerOf(1).sample_epoch_size = 2
    /\ Len(iters[1].out) = 3
    /\ Len(iters[2].out) = 2
    /\ \E k \in 1..3 : iters[1].out[k] # iters[1].out[1]

\* The first n rounds of sampler s from generator state g: each round is
\* sample_epoch_size draws and leaves the generator state of the next round.
RECURSIVE Rounds(_, _, _)
Rounds(s, g, n) ==
    IF n = 0 THEN <<>>
    ELSE LET r == Multinomial(s.weights, s.sample_epoch_size, g)
         IN  <<r.ids>> \o Rounds(s, r.g, n - 1)

\* C24: sample_epoch_size is the number of weights and of records; the stream an
\* iterator reads is the concatenation of rounds of sample_epoch_size draws, each
\* round drawn from the generator state the round before left; the k-th index of
\* rank r (k = 0, 1, ...) is draw (r + k * world_size) mod sample_epoch_size of round
\* (r + k * world_size) div sample_epoch_size.
C24_RoundsOfEpochSize ==
    \A a \in Slots :
        Started(a) =>
            LET s == SamplerOf(a)
                E == s.sample_epoch_size
                rounds == Rounds(s, ManualSeed(s.seed), (Len(iters[a].seen) + E - 1) \div E)
            IN  /\ E = Len(s.weights)
                /\ E = Len(dataset_dicts.dicts)
                /\ \A p \in 0..(Len(iters[a].seen) - 1) :
                      iters[a].seen[p + 1] = rounds[(p \div E) + 1][(p % E) + 1]
                /\ \A k \in 0..(Len(iters[a].out) - 1) :
                      LET p == s.rank + k * s.world_size
                      IN  iters[a].out[k + 1] = rounds[(p \div E) + 1][(p % E) + 1]

\* Rank 1 of 2 over three records has yielded three indices: positions 1, 3 and 5
\* of the stream, the last two in the second round; the two rounds differ.
C24_Witness ==
    \E a \in Slots :
        /\ Started(a)
        /\ SamplerOf(a).world_size = 2
        /\ SamplerOf(a).rank = 1
        /\ SamplerOf(a).sample_epoch_size = 3
        /\ Len(iters[a].out) = 3
        /\ iters[a].outpos = <<1, 3, 5>>
        /\ LET rounds == Rounds(SamplerOf(a), ManualSeed(SamplerOf(a).seed), 2)
           IN  rounds[1] # rounds[2]

-----------------------------------------------------------------------------
(* Properties of the groupers. *)

\* The aspect class of the specification: width > height, or not.
Wide(d) == d.width > d.height

\* The size configured for a dataset: the uniform batch_size, or the dataset's
\* entry of the per-dataset sizes.
Configured(ds) ==
    IF grouper.kind = "MD" THEN grouper.batch_size ELSE grouper.batch_sizes[ds + 1]

\* The 1-based bucket of a (dataset, aspect class).
BucketOf(d) == d.dataset_source * 2 + (IF Wide(d) THEN 1 ELSE 2)

\* The records consumed so far that belong to bucket b, in arrival order.
Arrivals(b) == SelectSeq(consumed, LAMBDA d : BucketOf(d) = b)

\* C1: every emitted batch is homogeneous in dataset_source and in aspect class
\* (width > height versus not), and its length is the size configured for its dataset.
C1_BatchHomogeneous ==
    \A j \in 1..Len(emitted) :
        LET batch == emitted[j]
        IN  /\ Len(batch) >= 1
            /\ \A x, y \in 1..Len(batch) :
                  /\ batch[x].dataset_source = batch[y].dataset_source
                  /\ Wide(batch[x]) = Wide(batch[y])
            /\ Len(batch) = Configured(batch[1].dataset_source)

\* A per-dataset grouper over two datasets has emitted a batch of two records of the
\* second dataset, one square and one tall.
C1_Witness ==
    /\ grouper.kind = "DIFF"
    /\ \E j \in 1..Len(emitted) :
          /\ Len(emitted[j]) = 2
          /\ emitted[j][1].dataset_source = 1
          /\ \E x, y \in 1..2 :
                /\ emitted[j][x].width = emitted[j][x].height
                /\ emitted[j][y].width < emitted[j][y].height

\* One step of the grouper: a step that takes a record appends it to its bucket and,
\* when the bucket then holds the configured size, emits the bucket's contents; the
\* step that follows an emission empties that bucket; either step leaves every other
\* bucket as it was.
C5_Step ==
    /\ Len(consumed') = Len(consumed) + 1 =>
          LET d == consumed'[Len(consumed')]
              b == BucketOf(d)
          IN  /\ grouper'.buckets[b] = Append(grouper.buckets[b], d)
              /\ \A o \in DOMAIN grouper.buckets :
                    o # b => grouper'.buckets[o] = grouper.buckets[o]
              /\ d.dataset_source + 1 \in 1..Len(grouper.batch_sizes) \/ grouper.kind = "MD" =>
                    IF Len(grouper'.buckets[b]) = Configured(d.dataset_source)
                    THEN emitted' = Append(emitted, grouper'.buckets[b]) /\ gpc' = "yield"
                    ELSE emitted' = emitted /\ gpc' = "loop"
    /\ gpc = "yield" =>
          LET b == BucketOf(emitted[Len(emitted)][1])
          IN  /\ consumed' = consumed
              /\ emitted' = emitted
              /\ grouper'.buckets[b] = <<>>
              /\ \A o \in DOMAIN grouper.buckets :
                    o # b => grouper'.buckets[o] = grouper.buckets[o]

Owed(b) ==
    LET ds == (b - 1) \div 2
        T == IF grouper.kind = "MD" \/ ds + 1 \in 1..Len(grouper.batch_sizes)
             THEN Configured(ds) ELSE 0
        A == Arrivals(b)
    IN  IF T <= 0 THEN {}
        ELSE {SubSeq(A, (k - 1) * T + 1, k * T) : k \in 1..(Len(A) \div T)}

Alternating(s) ==
    \A i \in 1..Len(s) : i > 1 => Wide(s[i]) # Wide(s[i - 1])

C10_PositiveBatchSize ==
    grouper.kind # "none" =>
        \A ds \in 0..(grouper.num_datasets - 1) :
            (grouper.kind = "MD" \/ ds + 1 \in 1..Len(grouper.batch_sizes))
                => Configured(ds) > 0

\* C11: iterating a constructed grouper never raises: after every record whose
\* dataset_source is below num_datasets the grouper has either buffered the record
\* or emitted a batch, for every configuration the builder accepted.
C11_IterationNeverRaises ==
    grouper.kind # "none" =>
        /\ gpc \in {"loop", "yield"}
        /\ \A k \in 1..Len(consumed) :
              consumed[k].dataset_source \in 0..(grouper.num_datasets - 1)

\* The ids of the records that were handed to the consumer in some batch.
DeliveredIds == UNION {{emitted[j][x].id : x \in 1..Len(emitted[j])} : j \in 1..Len(emitted)}

\* The buckets that hold records but fewer than the size of their dataset.
PartialBuckets ==
    {b \in DOMAIN grouper.buckets :
        /\ grouper.buckets[b] # <<>>
        /\ HasTarget(grouper, (b - 1) \div 2)
        /\ Len(grouper.buckets[b]) < Target(grouper, (b - 1) \div 2)}

\* One step, seen for the partial-batch flush: a batch is handed out only by a step
\* that takes a record, and by the generator that took it; a generator whose stream
\* has ended or that was dropped stays as it is; after the step no batch is shorter
\* than the size of its dataset and no record of a partial bucket was delivered.
C22_Step ==
    /\ emitted' # emitted =>
          /\ Len(consumed') = Len(consumed) + 1
          /\ emitted' = Append(emitted, emitted'[Len(emitted')])
          /\ PcOf(consumed'[Len(consumed')].slot) = "loop"
    /\ gpc \in {"done", "closed"} => gpc' = gpc
    /\ \A j \in 1..Len(emitted') :
          Len(emitted'[j]) = (IF grouper'.kind = "MD" THEN grouper'.batch_size
                              ELSE grouper'.batch_sizes[emitted'[j][1].dataset_source + 1])
    /\ \A b \in DOMAIN grouper'.buckets :
          (/\ HasTarget(grouper', (b - 1) \div 2)
           /\ Len(grouper'.buckets[b]) < Target(grouper', (b - 1) \div 2))
          => \A x \in 1..Len(grouper'.buckets[b]) :
                 \A j \in 1..Len(emitted') : \A y \in 1..Len(emitted'[j]) :
                     emitted'[j][y].id # grouper'.buckets[b][x].id

\* C22: there is no partial-batch flush: when the stream ends or the iteration is
\* dropped nothing further is emitted, no batch shorter than the target size is ever
\* emitted, and the records left in buckets below the target size are not delivered.
C22_NoPartialFlush == [][C22_Step]_vars

\* The stream of the only generator ended after a batch was emitted, with records
\* left in a bucket below its size.
C22_Witness ==
    /\ gpc = "done"
    /\ gen2.pc = "unborn"
    /\ Len(emitted) >= 1
    /\ PartialBuckets # {}
    /\ \A b \in PartialBuckets :
          \A x \in 1..Len(grouper.buckets[b]) : grouper.buckets[b][x].id \notin DeliveredIds

\* The dataset of a bucket (1-based bucket, 0-based dataset).
DatasetOfBucket(b) == (b - 1) \div 2

\* The buckets whose dataset has a positive target size.
PositiveBuckets ==
    {b \in DOMAIN grouper.buckets :
        HasTarget(grouper, DatasetOfBucket(b)) /\ Target(grouper, DatasetOfBucket(b)) > 0}

\* C25: between the steps of the grouper (no generator stands at a yield with its
\* bucket still to be emptied) every bucket of a dataset with a positive target size
\* holds fewer records than that size, and when every target is positive the
\* buffered records are at most the sum over the buckets of (target - 1).
C25_BucketsBelowTarget ==
    (grouper.kind # "none" /\ gpc # "yield" /\ gen2.pc # "yield") =>
        /\ \A b \in PositiveBuckets :
              Len(grouper.buckets[b]) < Target(grouper, DatasetOfBucket(b))
        /\ PositiveBuckets = DOMAIN grouper.buckets =>
              IntSum([b \in DOMAIN grouper.buckets |-> Len(grouper.buckets[b])])
                  <= IntSum([b \in DOMAIN grouper.buckets |->
                                Target(grouper, DatasetOfBucket(b)) - 1])

\* The ids of the records held in the buckets.
BufferedIds ==
    UNION {{grouper.buckets[b][x].id : x \in 1..Len(grouper.buckets[b])} :
              b \in DOMAIN grouper.buckets}

\* The records of s are in the order of their arrival.
InArrivalOrder(s) == \A x, y \in 1..Len(s) : x < y => s[x].id < s[y].id

\* C26: between the steps of the grouper every consumed record is in exactly one
\* place, one emitted batch or one bucket, none twice and none missing, and the
\* records of each batch and of each bucket are in their arrival order.
C26_Conservation ==
    (grouper.kind # "none" /\ gpc # "yield" /\ gen2.pc # "yield") =>
        /\ DeliveredIds \cup BufferedIds = 1..Len(consumed)
        /\ DeliveredIds \cap BufferedIds = {}
        /\ IntSum([j \in 1..Len(emitted) |-> Len(emitted[j])])
              + IntSum([b \in DOMAIN grouper.buckets |-> Len(grouper.buckets[b])])
              = Len(consumed)
        /\ \A j \in 1..Len(emitted) : InArrivalOrder(emitted[j])
        /\ \A b \in DOMAIN grouper.buckets : InArrivalOrder(grouper.buckets[b])

\* C27: a batch handed to the consumer is never changed by a later step of the
\* grouper: neither clearing the bucket nor appending to it alters the contents
\* or the length of a batch already emitted.
C27_Step ==
    /\ Len(emitted') >= Len(emitted)
    /\ \A j \in 1..Len(emitted) : emitted'[j] = emitted[j]

C27_BatchIsSnapshot == [][C27_Step]_vars

\* A batch was emitted, its bucket was cleared and took a later record, and the
\* batch still holds its records.
C27_Witness ==
    /\ gpc = "loop"
    /\ \E j \in 1..Len(emitted) :
          LET b == BucketOf(emitted[j][1])
          IN  /\ Len(emitted[j]) = Target(grouper, emitted[j][1].dataset_source)
              /\ grouper.buckets[b] # <<>>
              /\ \A x \in 1..Len(grouper.buckets[b]), y \in 1..Len(emitted[j]) :
                    grouper.buckets[b][x].id > emitted[j][y].id

\* C28: the buckets belong to the grouper, not to one iteration: starting a new
\* iteration leaves them as they are, and whichever generator takes a record
\* appends it to what any generator left in the record's bucket and emits that
\* bucket when it is full.
C28_Step ==
    /\ (gen2.pc = "unborn" /\ gen2'.pc = "loop") => grouper'.buckets = grouper.buckets
    /\ Len(consumed') > Len(consumed) =>
          LET d == consumed'[Len(consumed')]
              b == BucketOf(d)
          IN  /\ grouper'.buckets[b] = Append(grouper.buckets[b], d)
              /\ Len(emitted') > Len(emitted) =>
                    emitted'[Len(emitted')] = Append(grouper.buckets[b], d)

C28_BucketsOfTheInstance == [][C28_Step]_vars

\* The first generator has ended; a batch emitted by the second generator
\* begins with a record that the first one had put in the bucket.
C28_Witness ==
    /\ gpc = "done"
    /\ \E j \in 1..Len(emitted) :
          /\ Len(emitted[j]) > 1
          /\ emitted[j][1].slot = 1
          /\ emitted[j][Len(emitted[j])].slot = 2

\* Two interleaved generators, neither ended, filled one batch together.
C28_WitnessInterleaved ==
    /\ gpc \in {"loop", "yield"}
    /\ gen2.pc \in {"loop", "yield"}
    /\ \E j \in 1..Len(emitted) :
          {emitted[j][x].slot : x \in 1..Len(emitted[j])} = GenSlots

-----------------------------------------------------------------------------
(* Properties of the slices and of the merged list. *)

\* The records of the merged list that carry the dataset number of dataset i.
RecordsOfSource(dicts, i) ==
    LET OfDataset(d) == d.dataset_source = i - 1
    IN  SelectSeq(dicts, OfDataset)

\* C29: in a constructed sampler the slice dataset_dicts[st : st + sizes[i]] handed
\* to the estimators of dataset i holds exactly the records whose dataset_source
\* is i, in their order, and they are the records of dataset i of the catalog.
C29_SliceIsDataset ==
    \A inst \in Insts :
        samplers[inst].status = "ok" =>
            LET s == samplers[inst]
                D == dataset_dicts.dicts
            IN  \A i \in 1..Len(s.sizes) :
                    /\ Slice(D, s.sizes, i) = RecordsOfSource(D, i)
                    /\ Slice(D, s.sizes, i)
                          = IF i <= Len(catalog) THEN WithSource(catalog[i], i - 1)
                            ELSE <<>>

\* The second of two datasets has its estimators switched on and holds a record
\* that differs from the records of the first dataset.
C29_Witness ==
    /\ samplers[1].status = "ok"
    /\ samplers[1].sizes = <<2, 1>>
    /\ cfg.use_rfs[2] /\ cfg.use_cas[2]
    /\ catalog[2][1] # catalog[1][1]
    /\ Slice(dataset_dicts.dicts, samplers[1].sizes, 2) = WithSource(catalog[2], 1)

\* C30: the list returned by the merger holds every record of every dataset
\* exactly once, whatever filter_empty and min_keypoints are: the two filters
\* remove nothing from it.
C30_FiltersRemoveNothing ==
    dataset_dicts.status = "ok" =>
        LET D == dataset_dicts.dicts
        IN  /\ \A filter_empty \in BOOLEAN, min_keypoints \in KeypointMinima :
                  GetDetectionDatasetDictsWithSource(catalog, filter_empty, min_keypoints)
                      = dataset_dicts
            /\ Len(D) = IntSum([i \in 1..Len(catalog) |-> Len(catalog[i])])
            /\ \A i \in 1..Len(catalog) :
                  RecordsOfSource(D, i) = WithSource(catalog[i], i - 1)

\* The merged list holds a record that the crowd filter drops and that the
\* keypoint filter drops.
C30_Witness ==
    /\ dataset_dicts.status = "ok"
    /\ \E i \in 1..Len(catalog) :
          /\ FilterLoopValue(catalog[i], TRUE, 0) # catalog[i]
          /\ FilterLoopValue(catalog[i], FALSE, 1) # catalog[i]
          /\ \E k \in 1..Len(catalog[i]) :
                /\ catalog[i][k].cats = {}
                /\ \E x \in 1..Len(dataset_dicts.dicts) :
                      /\ dataset_dicts.dicts[x].dataset_source = i - 1
                      /\ dataset_dicts.dicts[x].cats = {}

====
